---- MODULE Spec2Model ----
(***************************************************************************)
(* MongoSync: the client registry of src/services/mongodb.ts (a Map from   *)
(* connection string to MongoClient), the service functions that use it    *)
(* and the route handlers that call them.  Node runs the handlers on one   *)
(* thread: a handler runs without interruption up to its next `await`, so  *)
(* every action below is the code between two awaits of one invocation.    *)
(* The second part is the documents routes: convertIdFilter, the four      *)
(* handlers of src/app/api/mongodb/documents/route.ts and the store calls  *)
(* of findDocuments, insertDocument, updateDocument and deleteDocument.    *)
(* The third part is the browser: the zustand store of src/lib/store.ts    *)
(* with the connection manager and the tabs, the document editor, the      *)
(* document table with its paging, and the sidebar's loadCollections.      *)
(***************************************************************************)
EXTENDS Integers, Sequences, FiniteSets, TLC

\* ---- bounds ------------------------------------------------------------
NumProcs == 2       \* invocations that can be in flight at once
MaxHandles == 2     \* MongoClient objects getMongoClient may construct

Procs == 1..NumProcs

\* ---- connection strings -------------------------------------------------
\* A connection string is its scheme and the rest of its text.  Map keys are
\* compared by exact string equality.  Two well-formed strings and one that
\* the driver rejects are the inputs.
GoodURIs == {[scheme |-> "mongodb", rest |-> "hostA"],
             [scheme |-> "mongodb+srv", rest |-> "hostB"]}
BadURI == [scheme |-> "http", rest |-> "hostA"]
URIs == GoodURIs \cup {BadURI}
NoURI == [scheme |-> "", rest |-> ""]

\* new MongoClient(uri) parses the connection string and throws a
\* MongoParseError unless the scheme is mongodb:// or mongodb+srv://.
WellFormed(u) == u.scheme \in {"mongodb", "mongodb+srv"}

NoClient == 0
NoError == "none"

\* ---- entry points --------------------------------------------------------
StoreOps == {"listDatabases", "listCollections", "getCollectionStats",
             "findDocuments", "insertDocument", "updateDocument",
             "deleteDocument", "executeAggregation", "getDatabaseStats"}
GatewayOps == StoreOps \cup {"testConnection"}
ServiceOps == GatewayOps \cup {"getMongoClient", "closeMongoClient"}

RegistryRoutes == {"connect.POST", "databases.POST", "collections.POST",
                   "stats.POST", "documents.POST", "documents.PUT",
                   "documents.PATCH", "documents.DELETE", "aggregate.POST"}
ManageRoutes == {"manage-collection.POST", "manage-collection.DELETE",
                 "manage-database.POST", "manage-database.DELETE"}
Routes == RegistryRoutes \cup ManageRoutes

\* The service function a route calls first.
ServiceOf(r) ==
  CASE r = "connect.POST"      -> "testConnection"
    [] r = "databases.POST"    -> "listDatabases"
    [] r = "collections.POST"  -> "listCollections"
    [] r = "stats.POST"        -> "getCollectionStats"
    [] r = "documents.POST"    -> "findDocuments"
    [] r = "documents.PUT"     -> "insertDocument"
    [] r = "documents.PATCH"   -> "updateDocument"
    [] r = "documents.DELETE"  -> "deleteDocument"
    [] r = "aggregate.POST"    -> "executeAggregation"
    [] OTHER                   -> "none"

\* Request body fields.
Fields == {"uri", "database", "collection", "document", "filter", "update",
           "pipeline"}
\* Required without the route-specific fields: only uri, database and
\* collection are tested.
Required_CommonOnly(r) ==
  CASE r \in {"connect.POST", "databases.POST"} -> {"uri"}
    [] r \in {"collections.POST", "manage-database.POST",
              "manage-database.DELETE"}         -> {"uri", "database"}
    [] OTHER -> {"uri", "database", "collection"}

\* The fields each route tests with `!field` before it does anything else.
Required(r) ==
  CASE r \in {"connect.POST", "databases.POST"} -> {"uri"}
    [] r \in {"collections.POST", "manage-database.POST",
              "manage-database.DELETE"}         -> {"uri", "database"}
    [] r \in {"stats.POST", "documents.POST", "manage-collection.POST",
              "manage-collection.DELETE"}       -> {"uri", "database", "collection"}
    [] r = "documents.PUT"    -> {"uri", "database", "collection", "document"}
    [] r = "documents.PATCH"  -> {"uri", "database", "collection", "filter", "update"}
    [] r = "documents.DELETE" -> {"uri", "database", "collection", "filter"}
    [] r = "aggregate.POST"   -> {"uri", "database", "collection", "pipeline"}
    [] OTHER                  -> {}

\* Driver calls a function awaits after it holds a client (findDocuments:
\* toArray then countDocuments; manage-database POST: createCollection then
\* drop).
Commands(f) == IF f \in {"findDocuments", "manage-database.POST"} THEN 2 ELSE 1

\* ---- state ---------------------------------------------------------------
\* clientCache: the Map, connection string -> client id (NoClient if absent)
\* clients:     every MongoClient getMongoClient constructed, by id
\* procs:       the invocations: position and local variables
\* disturbed:   per cacheable key, a probe on it failed or closeMongoClient
\*              was called for it (history, read by no action)
\* coll:        the documents of one collection, in natural order
\* reply:       the last response of a documents route, with the request that
\*              produced it and what the handler passed to the service
\* filter, convertedFilter: an argument of convertIdFilter and its result
VARIABLES clientCache, clients, procs, disturbed, coll, reply, filter, convertedFilter, connections, activeConnectionId, tabs, activeTabId, localStorage, connectRequests, ids, editorState, jsonString, isSaving, saveRequest, server, tableDocuments, tableTotal, page, pageSize, filterQuery, loads, issued, latest, deleting, databases, collectionCalls

docVars == <<coll, reply, filter, convertedFilter>>
\* The variables of the browser: the store (store.ts), the item localStorage
\* holds under STORAGE_KEYS.CONNECTIONS, the connect requests in flight, and
\* the number of ids generateId has handed out.
storeVars == <<connections, activeConnectionId, tabs, activeTabId, localStorage,
               connectRequests, ids>>
\* The document editor (DocumentEditor.tsx): the table's editorState, the
\* text in the editor, the isSaving flag, and the body of the request the
\* last save sent.
editorVars == <<editorState, jsonString, isSaving, saveRequest>>
\* The document table (part_001): the number of documents the collection
\* holds, the table's state, the loadDocuments requests in flight, how many
\* were issued, the last one issued with what became of it, and the delete
\* request in flight.
tableVars == <<server, tableDocuments, tableTotal, page, pageSize, filterQuery, loads, issued,
               latest, deleting>>
\* The sidebar (Sidebar.tsx): its database nodes by name, and the
\* loadCollections calls that have not returned.
sidebarVars == <<databases, collectionCalls>>
uiVars == <<storeVars, editorVars, tableVars, sidebarVars>>
serverVars == <<clientCache, clients, procs, disturbed, docVars>>
vars == <<serverVars, uiVars>>

Idle == [pc |-> "idle", op |-> "none", fn |-> "none", uri |-> NoURI,
         cached |-> NoClient, client |-> NoClient, step |-> 0,
         kind |-> "none", success |-> FALSE, error |-> NoError, status |-> 0]

\* Fields of an invocation's record: pc, its position; op, the function or
\* route invoked; fn, the service function now running; uri, its argument;
\* cached, the `client` of getMongoClient line 16 (the cached client found);
\* client, the `client` of line 28 or the client getMongoClient returned;
\* step, the driver call awaited; kind, success, error, status: the outcome.
InitRegistry ==
  /\ clientCache = [u \in URIs |-> NoClient]
  /\ clients = << >>
  /\ procs = [p \in Procs |-> Idle]
  /\ disturbed = [u \in GoodURIs |-> FALSE]

\* No request has been answered; the collection is empty.
NoValue == [k |-> "undefined", v |-> ""]
NoReply == [op |-> "none", req |-> NoValue, sent |-> NoValue, status |-> 0,
            success |-> FALSE, error |-> NoError, data |-> NoValue]
InitDocs ==
  /\ coll = << >>
  /\ reply = NoReply

\* ---- the browser's bounds ----------------------------------------------------
MaxIds == 3         \* ids generateId hands out
MaxRequests == 1    \* connect requests in flight for one connection

\* null, and localStorage.getItem of a key never set.
Null == [k |-> "null", v |-> ""]
NoItem == Null

\* The store as create() builds it (store.ts lines 16-20), nothing stored
\* under the connections key and no request sent.
InitStore ==
  /\ connections = << >>
  /\ activeConnectionId = Null
  /\ tabs = << >>
  /\ activeTabId = Null
  /\ localStorage = NoItem
  /\ connectRequests = [n \in 1..MaxIds |-> 0]
  /\ ids = 0

\* The editor is closed (part_001: editorState; DocumentEditor.tsx lines
\* 88-90) and nothing was saved.
ClosedEditor == [isOpen |-> FALSE, document |-> Null, mode |-> "create"]
InitEditor ==
  /\ editorState = ClosedEditor
  /\ jsonString = [k |-> "text", v |-> ""]
  /\ isSaving = FALSE
  /\ saveRequest = NoValue

\* ---- the document table's bounds ---------------------------------------------
MaxTotal == 21      \* documents in the collection when the table mounts
MaxIssued == 3      \* loadDocuments requests the table issues

\* The table after its first render and the effects of it (part_001 lines
\* 45-52 and 125-127) over a collection of n documents: nothing shown, the
\* first page of 20 asked for.
NoDocuments == [first |-> 0, last |-> 0, of |-> 0]
InitialPageSize == 20
LoadRequest(seq, q, p, size) ==
  [seq |-> seq, filterQuery |-> q, limit |-> size, skip |-> (p - 1) * size]
Issued(r) == [seq |-> r.seq, status |-> "pending", documents |-> NoDocuments, total |-> 0]
Mounted(n) ==
  /\ server = n
  /\ tableDocuments = NoDocuments
  /\ tableTotal = 0
  /\ page = 1
  /\ pageSize = InitialPageSize
  /\ filterQuery = "{}"
  /\ loads = {LoadRequest(1, "{}", 1, InitialPageSize)}
  /\ issued = 1
  /\ latest = Issued(LoadRequest(1, "{}", 1, InitialPageSize))
  /\ deleting = NoValue
InitTable == Mounted(0)

\* The sidebar before any database is listed (Sidebar.tsx line 81).
InitSidebar ==
  /\ databases = << >>
  /\ collectionCalls = {}

InitUI == InitStore /\ InitEditor /\ InitTable /\ InitSidebar

Init ==
  /\ InitRegistry
  /\ InitDocs
  /\ filter = NoValue
  /\ convertedFilter = NoValue
  /\ InitUI

\* ---- outcomes ------------------------------------------------------------
\* The invocation ends: what its caller observes.  kind "return"/"throw" is
\* the outcome of a service function called directly, "response" the JSON
\* body {success, error?} and HTTP status a route handler returns.
\* A direct caller of a service function still knows the call's argument
\* and the record keeps the function's locals as they were on return; a
\* route handler leaves nothing but its response.
Done(s, k, ok, e, st) ==
  IF s.op \in ServiceOps
    THEN [s EXCEPT !.pc = "done", !.kind = k, !.success = ok, !.error = e, !.status = st]
    ELSE [Idle EXCEPT !.pc = "done", !.op = s.op,
                      !.kind = k, !.success = ok, !.error = e, !.status = st]

\* RouteCatch that logs the error and rethrows it.
RouteCatch_Rethrow(s, e) == Done(s, "throw", FALSE, e, 0)

\* A route handler's catch block: 500 with {success: false, error: message}.
RouteCatch(s, e) == Done(s, "response", FALSE, e, 500)

\* testConnectionCatch that lets the error propagate to the caller.
testConnectionCatch_Rethrow(s, e) ==
  IF s.op \in Routes THEN RouteCatch(s, e) ELSE Done(s, "throw", FALSE, e, 0)

\* testConnection's catch block returns {success: false, error}; the connect
\* route turns that result into a 400 response.
testConnectionCatch(s, e) ==
  IF s.op = "connect.POST" THEN Done(s, "response", FALSE, e, 400)
                           ELSE Done(s, "return", FALSE, e, 0)

\* An exception raised in service code travels to the nearest catch.
Throw(s, e) ==
  IF s.fn = "testConnection" THEN testConnectionCatch(s, e)
  ELSE IF s.op \in Routes THEN RouteCatch(s, e)
  ELSE Done(s, "throw", FALSE, e, 0)

\* A service function returns normally to its caller.
ServiceReturn(s) ==
  IF s.op \in Routes THEN Done(s, "response", TRUE, NoError, 200)
                     ELSE Done(s, "return", TRUE, NoError, 0)

\* ---- getMongoClient -------------------------------------------------------
\* Lines 27-34: construct a client and start connect().
CanCreate(u) == WellFormed(u) => Len(clients) < MaxHandles
CreateProc(s, u) ==
  IF WellFormed(u) THEN [s EXCEPT !.client = Len(clients) + 1, !.pc = "connect"]
                   ELSE Throw(s, "invalid uri")
CreateClients(u) ==
  IF WellFormed(u)
    THEN Append(clients, [uri |-> u, connected |-> FALSE, closed |-> FALSE])
    ELSE clients

\* Lines 13-34 up to the first await, for the invocation p whose record is s.
getMongoClient(p, s, u) ==
  IF clientCache[u] # NoClient
    THEN /\ procs' = [procs EXCEPT ![p] = [s EXCEPT !.cached = clientCache[u], !.pc = "ping"]]
         /\ UNCHANGED clients
    ELSE /\ CanCreate(u)
         /\ procs' = [procs EXCEPT ![p] = CreateProc(s, u)]
         /\ clients' = CreateClients(u)

\* getMongoClient returned s.client to the service function s.fn, which runs
\* up to its own first await.
AfterAcquire(s) ==
  IF s.fn = "getMongoClient" THEN ServiceReturn(s)
                             ELSE [s EXCEPT !.pc = "command", !.step = 1]

\* closeMongoClient up to its await (lines 44-46).
closeMongoClient(p, s, u) ==
  /\ procs' = [procs EXCEPT ![p] =
        IF clientCache[u] # NoClient
          THEN [s EXCEPT !.client = clientCache[u], !.pc = "closing"]
          ELSE ServiceReturn(s)]
  /\ UNCHANGED clients

\* ---- actions --------------------------------------------------------------
\* A service function is called directly with connection string u.
Call(p, o, u) ==
  /\ procs[p].pc = "idle"
  /\ LET s == [procs[p] EXCEPT !.op = o, !.fn = o, !.uri = u] IN
       IF o = "closeMongoClient"
         THEN /\ closeMongoClient(p, s, u)
              /\ disturbed' = [c \in GoodURIs |-> disturbed[c] \/ c = u]
         ELSE /\ getMongoClient(p, s, u)
              /\ UNCHANGED disturbed
  /\ UNCHANGED clientCache
  /\ UNCHANGED <<docVars, uiVars>>

\* A request arrives at route r; the handler awaits request.json().
Request(p, r) ==
  /\ procs[p].pc = "idle"
  /\ procs' = [procs EXCEPT ![p] = [@ EXCEPT !.op = r, !.pc = "parse"]]
  /\ UNCHANGED <<clientCache, clients, disturbed>>
  /\ UNCHANGED <<docVars, uiVars>>

\* request.json() rejects: the body is not JSON.
ParseFail(p) ==
  /\ procs[p].pc = "parse"
  /\ procs' = [procs EXCEPT ![p] = RouteCatch(@, "invalid json")]
  /\ UNCHANGED <<clientCache, clients, disturbed>>
  /\ UNCHANGED <<docVars, uiVars>>

\* request.json() resolves with a body whose truthy fields are `present`,
\* whose uri is u and whose pipeline is an array iff isArray; the handler
\* validates and runs up to its next await.
ParseOk(p, present, u, isArray) ==
  /\ procs[p].pc = "parse"
  /\ LET s == procs[p]
         r == s.op IN
       IF ~(Required(r) \subseteq present)
         THEN /\ procs' = [procs EXCEPT ![p] = Done(s, "response", FALSE, "required", 400)]
              /\ UNCHANGED clients
       ELSE IF r = "aggregate.POST" /\ ~isArray
         THEN /\ procs' = [procs EXCEPT ![p] = Done(s, "response", FALSE, "not an array", 400)]
              /\ UNCHANGED clients
       ELSE IF r \in ManageRoutes
         THEN /\ procs' = [procs EXCEPT ![p] =
                   IF WellFormed(u)
                     THEN [s EXCEPT !.fn = r, !.uri = u, !.pc = "mconnect"]
                     ELSE RouteCatch(s, "invalid uri")]
              /\ UNCHANGED clients
       ELSE getMongoClient(p, [s EXCEPT !.fn = ServiceOf(r), !.uri = u], u)
  /\ UNCHANGED <<clientCache, disturbed>>
  /\ UNCHANGED <<docVars, uiVars>>

\* The ping on the cached client succeeds (line 20).
PingOk(p) ==
  /\ procs[p].pc = "ping"
  /\ procs' = [procs EXCEPT ![p] = AfterAcquire([@ EXCEPT !.client = procs[p].cached])]
  /\ UNCHANGED <<clientCache, clients, disturbed>>
  /\ UNCHANGED <<docVars, uiVars>>

\* PingFail with the probe's error rethrown instead of swallowed.
PingFail_Rethrow(p) ==
  /\ procs[p].pc = "ping"
  /\ procs' = [procs EXCEPT ![p] = Throw(@, "ping failed")]
  /\ UNCHANGED <<clientCache, clients, disturbed>>
  /\ UNCHANGED <<docVars, uiVars>>

\* The ping on the cached client fails (lines 21-34): the entry is deleted
\* and a new client is constructed.
PingFail(p) ==
  /\ procs[p].pc = "ping"
  /\ LET s == procs[p]
         u == s.uri IN
       /\ CanCreate(u)
       /\ clientCache' = [clientCache EXCEPT ![u] = NoClient]
       /\ procs' = [procs EXCEPT ![p] = CreateProc(s, u)]
       /\ clients' = CreateClients(u)
       /\ disturbed' = [disturbed EXCEPT ![u] = TRUE]
  /\ UNCHANGED <<docVars, uiVars>>

\* connect() resolves (lines 34-37).
ConnectOk(p) ==
  /\ procs[p].pc = "connect"
  /\ LET s == procs[p] IN
       /\ clients' = [clients EXCEPT ![s.client].connected = TRUE]
       /\ clientCache' = [clientCache EXCEPT ![s.uri] = s.client]
       /\ procs' = [procs EXCEPT ![p] = AfterAcquire(s)]
  /\ UNCHANGED disturbed
  /\ UNCHANGED <<docVars, uiVars>>

\* ConnectFail with clientCache.set placed before the awaited connect().
ConnectFail_Cached(p) ==
  /\ procs[p].pc = "connect"
  /\ clientCache' = [clientCache EXCEPT ![procs[p].uri] = procs[p].client]
  /\ procs' = [procs EXCEPT ![p] = Throw(@, "connect failed")]
  /\ UNCHANGED <<clients, disturbed>>
  /\ UNCHANGED <<docVars, uiVars>>

\* connect() rejects (line 34).
ConnectFail(p) ==
  /\ procs[p].pc = "connect"
  /\ procs' = [procs EXCEPT ![p] = Throw(@, "connect failed")]
  /\ UNCHANGED <<clientCache, clients, disturbed>>
  /\ UNCHANGED <<docVars, uiVars>>

\* The awaited driver call of a service function resolves.
CommandOk(p) ==
  /\ procs[p].pc = "command"
  /\ LET s == procs[p] IN
       IF s.step < Commands(s.fn)
         THEN /\ procs' = [procs EXCEPT ![p] = [s EXCEPT !.step = s.step + 1]]
              /\ UNCHANGED clients
       ELSE IF s.op = "connect.POST" /\ s.fn = "testConnection"
         THEN getMongoClient(p, [s EXCEPT !.fn = "listDatabases", !.cached = NoClient,
                                          !.client = NoClient], s.uri)
       ELSE /\ procs' = [procs EXCEPT ![p] = ServiceReturn(s)]
            /\ UNCHANGED clients
  /\ UNCHANGED <<clientCache, disturbed>>
  /\ UNCHANGED <<docVars, uiVars>>

\* CommandFail with a cleanup that releases the client on error.
CommandFail_Release(p) ==
  /\ procs[p].pc = "command"
  /\ LET s == procs[p] IN
       /\ clients' = [clients EXCEPT ![s.client].closed = TRUE]
       /\ clientCache' = [clientCache EXCEPT ![s.uri] = NoClient]
       /\ procs' = [procs EXCEPT ![p] = Throw(s, "command failed")]
  /\ UNCHANGED disturbed
  /\ UNCHANGED <<docVars, uiVars>>

\* The awaited driver call of a service function rejects.
CommandFail(p) ==
  /\ procs[p].pc = "command"
  /\ procs' = [procs EXCEPT ![p] = Throw(@, "command failed")]
  /\ UNCHANGED <<clientCache, clients, disturbed>>
  /\ UNCHANGED <<docVars, uiVars>>

\* CloseDone with clientCache.clear() in place of clientCache.delete(uri).
CloseDone_Clear(p) ==
  /\ procs[p].pc = "closing"
  /\ LET s == procs[p] IN
       /\ clients' = [clients EXCEPT ![s.client].closed = TRUE]
       /\ clientCache' = [u \in URIs |-> NoClient]
       /\ procs' = [procs EXCEPT ![p] = ServiceReturn(s)]
  /\ UNCHANGED disturbed
  /\ UNCHANGED <<docVars, uiVars>>

\* client.close() resolves in closeMongoClient (lines 46-47).
CloseDone(p) ==
  /\ procs[p].pc = "closing"
  /\ LET s == procs[p] IN
       /\ clients' = [clients EXCEPT ![s.client].closed = TRUE]
       /\ clientCache' = [clientCache EXCEPT ![s.uri] = NoClient]
       /\ procs' = [procs EXCEPT ![p] = ServiceReturn(s)]
  /\ UNCHANGED disturbed
  /\ UNCHANGED <<docVars, uiVars>>

\* Manage routes use a client of their own, outside the registry.
MConnectOk(p) ==
  /\ procs[p].pc = "mconnect"
  /\ procs' = [procs EXCEPT ![p] = [@ EXCEPT !.pc = "mcommand", !.step = 1]]
  /\ UNCHANGED <<clientCache, clients, disturbed>>
  /\ UNCHANGED <<docVars, uiVars>>

MConnectFail(p) ==
  /\ procs[p].pc = "mconnect"
  /\ procs' = [procs EXCEPT ![p] = RouteCatch(@, "connect failed")]
  /\ UNCHANGED <<clientCache, clients, disturbed>>
  /\ UNCHANGED <<docVars, uiVars>>

\* The inner try completes; `finally` awaits client.close() with the
\* response (error = NoError) or the exception pending.
MCommandOk(p) ==
  /\ procs[p].pc = "mcommand"
  /\ LET s == procs[p] IN
       procs' = [procs EXCEPT ![p] =
         IF s.step < Commands(s.op) THEN [s EXCEPT !.step = s.step + 1]
                                    ELSE [s EXCEPT !.pc = "mclose"]]
  /\ UNCHANGED <<clientCache, clients, disturbed>>
  /\ UNCHANGED <<docVars, uiVars>>

MCommandFail(p) ==
  /\ procs[p].pc = "mcommand"
  /\ procs' = [procs EXCEPT ![p] = [@ EXCEPT !.pc = "mclose", !.error = "command failed"]]
  /\ UNCHANGED <<clientCache, clients, disturbed>>
  /\ UNCHANGED <<docVars, uiVars>>

MCloseDone(p) ==
  /\ procs[p].pc = "mclose"
  /\ LET s == procs[p] IN
       procs' = [procs EXCEPT ![p] =
         IF s.error = NoError THEN ServiceReturn(s) ELSE RouteCatch(s, s.error)]
  /\ UNCHANGED <<clientCache, clients, disturbed>>
  /\ UNCHANGED <<docVars, uiVars>>

\* The caller takes the outcome; the invocation is over.
Return(p) ==
  /\ procs[p].pc = "done"
  /\ procs' = [procs EXCEPT ![p] = Idle]
  /\ UNCHANGED <<clientCache, clients, disturbed>>
  /\ UNCHANGED <<docVars, uiVars>>

\* Request bodies for route r, by their truthy fields: every field the route
\* reads is present, or exactly one of them is missing.
Bodies(r) == {Required(r)} \cup {Required(r) \ {f} : f \in Required(r)}

RegistryOps == {"getMongoClient", "closeMongoClient"}

\* The steps of an invocation inside getMongoClient, and its end.
Acquiring(p) ==
  \/ PingOk(p)
  \/ PingFail(p)
  \/ ConnectOk(p)
  \/ ConnectFail(p)
  \/ Return(p)

\* An invocation that calls getMongoClient and closeMongoClient directly.
RegistryStep(p) ==
  \/ \E o \in RegistryOps, u \in URIs : Call(p, o, u)
  \/ CloseDone(p)
  \/ Acquiring(p)

\* The registry alone: every invocation calls getMongoClient and
\* closeMongoClient, in any interleaving.
Next == \E p \in Procs : RegistryStep(p)

Spec == Init /\ [][Next]_vars

\* The service functions: invocation Gateway calls the functions that run a
\* store command while invocation Background uses the registry directly.
Gateway == CHOOSE p \in Procs : \A q \in Procs : p <= q
Background == Gateway + 1

NextService ==
  \/ \E o \in GatewayOps, u \in URIs : Call(Gateway, o, u)
  \/ CommandOk(Gateway)
  \/ CommandFail(Gateway)
  \/ Acquiring(Gateway)
  \/ RegistryStep(Background)

SpecService == Init /\ [][NextService]_vars

\* The route handlers: invocation Gateway serves requests while invocation
\* Background uses the registry directly.
NextRoutes ==
  \/ \E r \in Routes : Request(Gateway, r)
  \/ ParseFail(Gateway)
  \/ \E present \in Bodies(procs[Gateway].op), u \in URIs, isArray \in BOOLEAN :
       ParseOk(Gateway, present, u, isArray)
  \/ CommandOk(Gateway)
  \/ CommandFail(Gateway)
  \/ MConnectOk(Gateway)
  \/ MConnectFail(Gateway)
  \/ MCommandOk(Gateway)
  \/ MCommandFail(Gateway)
  \/ MCloseDone(Gateway)
  \/ Acquiring(Gateway)
  \/ RegistryStep(Background)

SpecRoutes == Init /\ [][NextRoutes]_vars

\* ==== the documents routes ================================================
\* ---- bounds ------------------------------------------------------------
MaxDocs == 2        \* documents the collection can hold
MaxLen == 2         \* elements of an array inside a filter

\* ---- values --------------------------------------------------------------
\* A JSON or BSON value carries its kind: a string, an ObjectId (v is its
\* hex text), null, an object (v maps keys to values) or an array (v is the
\* sequence of its elements).  undefined is NoValue.  Values of different
\* kinds are never equal: the string "507f..." is not the ObjectId 507f...
Str(s) == [k |-> "str", v |-> s]
Oid(h) == [k |-> "oid", v |-> h]
Map(m) == [k |-> "map", v |-> m]
Arr(a) == [k |-> "arr", v |-> a]
Empty == [key \in {} |-> NoValue]

\* The strings of the input alphabet that are 24 hex characters, and one
\* that is not.
AnId == "507f1f77bcf86cd799439011"
OtherId == "507f191e810c19729de860ea"
HexIds == {AnId, OtherId}
NotAnId == "not-an-id"

\* new ObjectId(s) returns for a string of 24 hex characters and throws for
\* the other strings of the alphabet.
ObjectIdAccepts(s) == s \in HexIds

\* !x
Falsy(x) == x.k \in {"undefined", "null"} \/ x = Str("")
\* typeof x === 'object'
TypeofObject(x) == x.k \in {"null", "oid", "map", "arr"}

\* The property name of array index i.
IndexKey(i) == CASE i = 1 -> "0" [] i = 2 -> "1" [] i = 3 -> "2" [] OTHER -> "3"

\* { ...x }: the own enumerable properties of an object; of an array, its
\* elements under their index as property name.
Spread(x) ==
  IF x.k = "arr"
    THEN [key \in {IndexKey(i) : i \in DOMAIN x.v} |->
            x.v[CHOOSE i \in DOMAIN x.v : IndexKey(i) = key]]
    ELSE x.v

\* convertIdFilter with the argument returned as it is.
convertIdFilter_Identity(f) == f

\* convertIdFilter (documents/route.ts lines 10-33).
RECURSIVE convertIdFilter(_)
convertIdFilter(f) ==
  IF Falsy(f) \/ ~TypeofObject(f) THEN f
  ELSE
    LET copy == Spread(f)
        withId ==
          IF /\ "_id" \in DOMAIN copy
             /\ ~Falsy(copy["_id"])
             /\ copy["_id"].k = "str"
             /\ ObjectIdAccepts(copy["_id"].v)
            THEN [copy EXCEPT !["_id"] = Oid(copy["_id"].v)]
            ELSE copy
    IN Map([key \in DOMAIN withId |->
              IF /\ TypeofObject(withId[key])
                 /\ withId[key].k # "null"
                 /\ withId[key].k # "oid"
                THEN convertIdFilter(withId[key])
                ELSE withId[key]])

\* ---- convertIdFilter on its own -------------------------------------------
\* Arguments: scalars, objects and arrays of them, and objects and arrays
\* nested up to three levels under the keys a query uses.
Scalars == {Str(AnId), Str(NotAnId), Oid(AnId), Null}
FieldKeys == {"_id", "name"}
WrapKeys == {"_id", "$or", "$in", "user"}
Objects1 == {Map(m) : m \in UNION {[S -> Scalars] : S \in SUBSET FieldKeys}}
Arrays1 == {Arr(a) : a \in UNION {[1..n -> {Str(AnId), Str(NotAnId)}] : n \in 1..MaxLen}}
Nested1 == Objects1 \cup Arrays1
Nested2 == {Map([key \in {w} |-> x]) : w \in WrapKeys, x \in Nested1}
             \cup {Arr(<<x>>) : x \in Objects1}
Nested3 == {Map([key \in {w} |-> x]) : w \in WrapKeys, x \in Nested2}
Filters == {Str(AnId), Null, NoValue} \cup Nested1 \cup Nested2 \cup Nested3

\* No call has returned yet.
Pending == [k |-> "pending", v |-> ""]

InitConvert ==
  /\ InitRegistry
  /\ InitDocs
  /\ filter \in Filters
  /\ convertedFilter = Pending
  /\ InitUI

\* const convertedFilter = convertIdFilter(filter)
Convert ==
  /\ convertedFilter = Pending
  /\ convertedFilter' = convertIdFilter(filter)
  /\ UNCHANGED <<clientCache, clients, procs, disturbed, coll, reply, filter, uiVars>>

NextConvert == Convert

SpecConvert == InitConvert /\ [][NextConvert]_vars

\* ---- the store -------------------------------------------------------------
\* The defaults findDocuments gives limit and skip, and the page size the
\* list handler reports when options.limit is missing or 0.
DefaultLimit == 50
DefaultSkip == 0

\* A stored document maps its field names to values; a query matches it when
\* every field it names has the same value, of the same kind, in the document.
Field(key, x) == [f \in {key} |-> x]
Matches(doc, q) == \A key \in DOMAIN q.v : key \in DOMAIN doc /\ doc[key] = q.v[key]

\* coll.find(filter): the matching documents in natural order.
find(c, q) == SelectSeq(c, LAMBDA doc : Matches(doc, q))

\* Page with the limit left out.
Page_NoLimit(s, skip, limit) == SubSeq(s, skip + 1, Len(s))

\* cursor.skip(skip).limit(limit).toArray(); limit 0 means no limit.
Page(s, skip, limit) ==
  LET rest == SubSeq(s, skip + 1, Len(s)) IN
    IF limit = 0 \/ Len(rest) <= limit THEN rest ELSE SubSeq(rest, 1, limit)

\* coll.countDocuments(filter)
countDocuments(c, q) == Len(find(c, q))

\* findDocuments with the length of the page as total.
findDocuments_PageTotal(c, q, options) ==
  LET limit == IF "limit" \in DOMAIN options THEN options.limit ELSE DefaultLimit
      skip == IF "skip" \in DOMAIN options THEN options.skip ELSE DefaultSkip
      documents == Page(find(c, q), skip, limit)
  IN [documents |-> documents, total |-> Len(documents)]

\* findDocuments (mongodb.ts lines 84-121), with no projection and no sort.
findDocuments(c, q, options) ==
  LET limit == IF "limit" \in DOMAIN options THEN options.limit ELSE DefaultLimit
      skip == IF "skip" \in DOMAIN options THEN options.skip ELSE DefaultSkip
      documents == Page(find(c, q), skip, limit)
      total == countDocuments(c, q)
  IN [documents |-> documents, total |-> total]

\* The position of the first document the query matches, 0 if none.
FirstMatch(c, q) ==
  IF \E i \in DOMAIN c : Matches(c[i], q)
    THEN CHOOSE i \in DOMAIN c :
           Matches(c[i], q) /\ \A j \in 1..(i - 1) : ~Matches(c[j], q)
    ELSE 0

\* The ObjectIds the driver can give a document inserted without _id.
FreshIds(c) == {Oid(h) : h \in {g \in HexIds : \A i \in DOMAIN c : c[i]["_id"] # Oid(g)}}

\* coll.insertOne(document) where the document's _id is id; _id is unique.
insertOne(c, document, id) ==
  IF \E i \in DOMAIN c : c[i]["_id"] = id
    THEN [coll |-> c, insertedId |-> NoValue, error |-> "duplicate key"]
    ELSE [coll |-> Append(c, [key \in DOMAIN document \cup {"_id"} |->
                                 IF key = "_id" THEN id ELSE document[key]]),
          insertedId |-> id, error |-> NoError]

\* SetFields with the document replaced by the payload.
SetFields_Replace(doc, u) ==
  [key \in DOMAIN u \cup {"_id"} |-> IF key \in DOMAIN u THEN u[key] ELSE doc[key]]

\* { $set: u } applied to a document.
SetFields(doc, u) ==
  [key \in DOMAIN doc \cup DOMAIN u |-> IF key \in DOMAIN u THEN u[key] ELSE doc[key]]

\* coll.updateOne(filter, { $set: u }): the first matching document; _id
\* cannot be given another value.
updateOne(c, q, u) ==
  LET i == FirstMatch(c, q) IN
    IF i = 0
      THEN [coll |-> c, matchedCount |-> 0, modifiedCount |-> 0, error |-> NoError]
    ELSE IF "_id" \in DOMAIN u /\ u["_id"] # c[i]["_id"]
      THEN [coll |-> c, matchedCount |-> 0, modifiedCount |-> 0,
            error |-> "immutable field"]
    ELSE [coll |-> [c EXCEPT ![i] = SetFields(c[i], u)],
          matchedCount |-> 1,
          modifiedCount |-> IF SetFields(c[i], u) = c[i] THEN 0 ELSE 1,
          error |-> NoError]

\* deleteOne applied to every matching document.
deleteOne_Many(c, q) ==
  [coll |-> SelectSeq(c, LAMBDA doc : ~Matches(doc, q)),
   deletedCount |-> Len(find(c, q))]

\* coll.deleteOne(filter): the first matching document.
deleteOne(c, q) ==
  LET i == FirstMatch(c, q) IN
    IF i = 0 THEN [coll |-> c, deletedCount |-> 0]
             ELSE [coll |-> SubSeq(c, 1, i - 1) \o SubSeq(c, i + 1, Len(c)),
                   deletedCount |-> 1]

\* ---- responses -------------------------------------------------------------
\* NextResponse.json serialises an ObjectId as its hex string.
toJSON(x) == IF x.k = "oid" THEN Str(x.v) ELSE x
DocumentJSON(doc) == [key \in DOMAIN doc |-> toJSON(doc[key])]

\* A response with the request body it answers (req) and the arguments the
\* handler gave the service function (sent; NoValue if it called none).
Respond(o, body, args, st, ok, e, d) ==
  [op |-> o, req |-> body, sent |-> args, status |-> st, success |-> ok,
   error |-> e, data |-> d]
BadRequest(o, body) == Respond(o, body, NoValue, 400, FALSE, "required", NoValue)

\* ---- the handlers ------------------------------------------------------------
\* Each handler runs against a collection no other request changes while it
\* runs, with a client the registry returned; uri, database and collection
\* are present in every body.
\* POST: list documents.
DocumentsPOST(f, options) ==
  LET body == [filter |-> f, options |-> options]
      q == convertIdFilter(IF f = NoValue THEN Map(Empty) ELSE f)
      result == findDocuments(coll, q, options)
      limit == IF "limit" \in DOMAIN options /\ options.limit # 0
                 THEN options.limit ELSE DefaultLimit
      skip == IF "skip" \in DOMAIN options THEN options.skip ELSE 0
  IN /\ reply' = Respond("documents.POST", body, [filter |-> q, options |-> options],
                         200, TRUE, NoError,
                         [documents |-> [i \in DOMAIN result.documents |->
                                           DocumentJSON(result.documents[i])],
                          total |-> result.total,
                          page |-> (skip \div limit) + 1,
                          pageSize |-> limit])
     /\ UNCHANGED <<coll, filter, convertedFilter>>
     /\ UNCHANGED <<clientCache, clients, procs, disturbed, uiVars>>

\* PUT: insert a document.
DocumentsPUT(document) ==
  /\ IF Falsy(document)
       THEN /\ reply' = BadRequest("documents.PUT", [document |-> document])
            /\ UNCHANGED coll
       ELSE /\ Len(coll) < MaxDocs
            /\ \E id \in IF "_id" \in DOMAIN document.v THEN {document.v["_id"]}
                                                      ELSE FreshIds(coll) :
                 LET result == insertOne(coll, document.v, id) IN
                   /\ coll' = result.coll
                   /\ reply' =
                        IF result.error = NoError
                          THEN Respond("documents.PUT", [document |-> document],
                                       [document |-> document.v], 200, TRUE, NoError,
                                       [insertedId |-> toJSON(result.insertedId)])
                          ELSE Respond("documents.PUT", [document |-> document],
                                       [document |-> document.v], 500, FALSE,
                                       result.error, NoValue)
  /\ UNCHANGED <<filter, convertedFilter>>
  /\ UNCHANGED <<clientCache, clients, procs, disturbed, uiVars>>

\* PATCH: update a document.
DocumentsPATCH(f, update) ==
  LET body == [filter |-> f, update |-> update] IN
  /\ IF Falsy(f) \/ Falsy(update)
       THEN /\ reply' = BadRequest("documents.PATCH", body)
            /\ UNCHANGED coll
       ELSE LET q == convertIdFilter(f)
                result == updateOne(coll, q, update.v) IN
              /\ coll' = result.coll
              /\ reply' =
                   IF result.error = NoError
                     THEN Respond("documents.PATCH", body,
                                  [filter |-> q, update |-> update.v], 200, TRUE, NoError,
                                  [modifiedCount |-> result.modifiedCount])
                     ELSE Respond("documents.PATCH", body,
                                  [filter |-> q, update |-> update.v], 500, FALSE,
                                  result.error, NoValue)
  /\ UNCHANGED <<filter, convertedFilter>>
  /\ UNCHANGED <<clientCache, clients, procs, disturbed, uiVars>>

\* DELETE: delete a document.
DocumentsDELETE(f) ==
  /\ IF Falsy(f)
       THEN /\ reply' = BadRequest("documents.DELETE", [filter |-> f])
            /\ UNCHANGED coll
       ELSE LET q == convertIdFilter(f)
                result == deleteOne(coll, q) IN
              /\ coll' = result.coll
              /\ reply' = Respond("documents.DELETE", [filter |-> f], [filter |-> q],
                                  200, TRUE, NoError,
                                  [deletedCount |-> result.deletedCount])
  /\ UNCHANGED <<filter, convertedFilter>>
  /\ UNCHANGED <<clientCache, clients, procs, disturbed, uiVars>>

\* Request bodies: documents with and without an _id of their own, queries on
\* _id and on a field, update payloads with and without _id, and the limits
\* and skips of a list request.
IdBodies == {Str(AnId), Str("k1")}
DocBodies ==
  {Map(Field("name", Str("a")) @@ Field("tag", Str("x")) @@ i) :
     i \in {Empty} \cup {Field("_id", x) : x \in IdBodies}}
FilterBodies ==
  {Map(Empty), Map(Field("name", Str("a")))}
    \cup {Map(Field("_id", Str(s))) : s \in HexIds \cup {"k1"}}
UpdateBodies ==
  {Map(Field("name", Str("b"))),
   Map(Field("_id", Str(AnId)) @@ Field("name", Str("b")))}
Limits == {0, 1, MaxDocs}
FindOptions ==
  {l @@ s : l \in {Empty} \cup {Field("limit", n) : n \in Limits},
            s \in {Empty, Field("skip", 1)}}

NextDocs ==
  \/ \E f \in FilterBodies \cup {NoValue}, options \in FindOptions : DocumentsPOST(f, options)
  \/ \E document \in DocBodies \cup {NoValue} : DocumentsPUT(document)
  \/ \E f \in FilterBodies \cup {NoValue}, update \in UpdateBodies \cup {NoValue} :
       DocumentsPATCH(f, update)
  \/ \E f \in FilterBodies \cup {NoValue} : DocumentsDELETE(f)

SpecDocs == Init /\ [][NextDocs]_vars

\* ==== the browser: store, connection manager and tabs ========================
\* Every variable the store's operations leave alone.
notStoreVars == <<serverVars, editorVars, tableVars, sidebarVars>>

\* generateId (utils.ts lines 70-72) joins the time and a random suffix: an
\* id that was not handed out before.
Id(n) == [k |-> "id", v |-> n]
generateId == Id(ids + 1)

\* new Date().toISOString()
Now == Str("2024-01-01T00:00:00.000Z")

\* What the connection form hands addConnection (ConnectionManager.tsx
\* lines 76-79).
AUri == "mongodb://hostA:27017"
ConnectionInputs == {"name" :> Str("local") @@ "uri" :> Str(AUri)}

\* extractHostFromUri (utils.ts lines 57-67) on the uris of the form.
extractHostFromUri(uri) == IF uri = Str(AUri) THEN Str("hostA:27017") ELSE Str("Unknown")

\* JSON.stringify of a list of objects: a property whose value is undefined
\* is left out of the text.  JSON.parse gives back the objects of the text.
JSONstringify(list) ==
  [k |-> "json",
   v |-> [i \in DOMAIN list |->
            [key \in {x \in DOMAIN list[i] : list[i][x] # NoValue} |-> list[i][key]]]]
JSONparse(text) == text.v

\* What reading property key of an object gives.
Read(conn, key) == IF key \in DOMAIN conn THEN conn[key] ELSE NoValue

\* persist with the stored item left as it is.
persist_Stale(list) == localStorage

\* persist (store.ts lines 205-214), in the browser: the item stored under
\* the connections key after it.
persist(list) == JSONstringify(list)

\* hydrate (store.ts lines 176-185): the connections it sets.
hydrate(item) == IF item # NoItem THEN JSONparse(item) ELSE << >>

ConnectionIds == {connections[i]["id"] : i \in DOMAIN connections}
TabIds == {tabs[i].id : i \in DOMAIN tabs}

\* store.ts lines 26-45.
addConnection(connection) ==
  /\ ids < MaxIds
  /\ LET newConnection ==
           ("id" :> generateId
              @@ "host" :> extractHostFromUri(connection["uri"])
              @@ "status" :> Str("disconnected")
              @@ "createdAt" :> Now) @@ connection
     IN /\ connections' = Append(connections, newConnection)
        /\ activeConnectionId' =
             IF Len(connections') = 1 THEN newConnection["id"] ELSE activeConnectionId
        /\ localStorage' = persist(connections')
  /\ ids' = ids + 1
  /\ UNCHANGED <<tabs, activeTabId, connectRequests>>
  /\ UNCHANGED notStoreVars

\* store.ts lines 47-54.
updateConnection(id, updates) ==
  /\ connections' = [i \in DOMAIN connections |->
                       IF connections[i]["id"] = id THEN updates @@ connections[i]
                                                    ELSE connections[i]]
  /\ localStorage' = persist(connections')

\* store.ts lines 56-73, called by handleDelete (ConnectionManager.tsx
\* lines 128-132).
removeConnection(id) ==
  /\ LET activeTab == {i \in DOMAIN tabs : tabs[i].id = activeTabId} IN
       /\ tabs' = SelectSeq(tabs, LAMBDA tab : tab.connectionId # id)
       /\ activeTabId' =
            IF /\ activeTabId # Null
               /\ \E i \in activeTab : tabs[i].connectionId = id
              THEN Null ELSE activeTabId
  /\ connections' = SelectSeq(connections, LAMBDA conn : conn["id"] # id)
  /\ activeConnectionId' = IF activeConnectionId = id THEN Null ELSE activeConnectionId
  /\ localStorage' = persist(connections')
  /\ UNCHANGED <<connectRequests, ids>>
  /\ UNCHANGED notStoreVars

\* store.ts lines 75-77, called for a connected connection's card
\* (ConnectionManager.tsx lines 175-180).
setActiveConnection(id) ==
  /\ activeConnectionId' = id
  /\ UNCHANGED <<connections, tabs, activeTabId, localStorage, connectRequests, ids>>
  /\ UNCHANGED notStoreVars

\* handleConnect up to its await (ConnectionManager.tsx lines 92-103).
handleConnect(connectionId) ==
  /\ connectionId \in ConnectionIds
  /\ connectRequests[connectionId.v] < MaxRequests
  /\ updateConnection(connectionId, "status" :> Str("connecting"))
  /\ connectRequests' = [connectRequests EXCEPT ![connectionId.v] = @ + 1]
  /\ UNCHANGED <<activeConnectionId, tabs, activeTabId, ids>>
  /\ UNCHANGED notStoreVars

\* The ways the connect request ends: a response with success and the
\* database names, a response without success whose error is missing, or
\* fetch throwing.
ConnectOutcomes ==
  {[success |-> TRUE,
    updates |-> "status" :> Str("connected") @@ "databases" :> Arr(<<"db1">>)
                  @@ "lastConnected" :> Now]}
    \cup {[success |-> FALSE, updates |-> "status" :> Str("error") @@ "error" :> e] :
            e \in {NoValue, Str("Connection failed")}}

\* handleConnect after its await (ConnectionManager.tsx lines 105-126).
handleConnectDone(connectionId, outcome) ==
  /\ connectRequests[connectionId.v] > 0
  /\ connectRequests' = [connectRequests EXCEPT ![connectionId.v] = @ - 1]
  /\ updateConnection(connectionId, outcome.updates)
  /\ activeConnectionId' = IF outcome.success THEN connectionId ELSE activeConnectionId
  /\ UNCHANGED <<tabs, activeTabId, ids>>
  /\ UNCHANGED notStoreVars

\* addTab with no look for an open tab of the same collection.
addTab_Always(tab) ==
  /\ ids < MaxIds
  /\ tabs' = Append(tabs, [id |-> generateId, connectionId |-> tab.connectionId,
                           database |-> tab.database, collection |-> tab.collection,
                           title |-> tab.title, view |-> tab.view])
  /\ activeTabId' = generateId
  /\ ids' = ids + 1
  /\ UNCHANGED <<connections, activeConnectionId, localStorage, connectRequests>>
  /\ UNCHANGED notStoreVars

\* store.ts lines 80-103.
addTab(tab) ==
  LET existing == {i \in DOMAIN tabs :
                     /\ tabs[i].connectionId = tab.connectionId
                     /\ tabs[i].database = tab.database
                     /\ tabs[i].collection = tab.collection}
  IN IF existing # {}
       THEN /\ activeTabId' = tabs[CHOOSE i \in existing : \A j \in existing : i <= j].id
            /\ UNCHANGED <<connections, activeConnectionId, tabs, localStorage,
                           connectRequests, ids>>
            /\ UNCHANGED notStoreVars
       ELSE /\ ids < MaxIds
            /\ tabs' = Append(tabs, [id |-> generateId, connectionId |-> tab.connectionId,
                                     database |-> tab.database, collection |-> tab.collection,
                                     title |-> tab.title, view |-> tab.view])
            /\ activeTabId' = generateId
            /\ ids' = ids + 1
            /\ UNCHANGED <<connections, activeConnectionId, localStorage, connectRequests>>
            /\ UNCHANGED notStoreVars

\* openCollection (Sidebar.tsx lines 250-260).
openCollection(database, collection) ==
  /\ activeConnectionId # Null
  /\ addTab([connectionId |-> activeConnectionId, database |-> database,
             collection |-> collection, title |-> <<database, ".", collection>>,
             view |-> "documents"])

\* removeTab with activeTabId left as it is.
removeTab_KeepActive(id) ==
  /\ tabs' = SelectSeq(tabs, LAMBDA tab : tab.id # id)
  /\ UNCHANGED <<connections, activeConnectionId, activeTabId, localStorage,
                 connectRequests, ids>>
  /\ UNCHANGED notStoreVars

\* store.ts lines 111-132.
removeTab(id) ==
  /\ LET newTabs == SelectSeq(tabs, LAMBDA tab : tab.id # id)
         currentIndex == CHOOSE i \in DOMAIN tabs : tabs[i].id = id
         nextIndex == IF currentIndex <= Len(newTabs) THEN currentIndex ELSE Len(newTabs)
     IN /\ tabs' = newTabs
        /\ activeTabId' =
             IF activeTabId = id
               THEN IF Len(newTabs) > 0 THEN newTabs[nextIndex].id ELSE Null
               ELSE activeTabId
  /\ UNCHANGED <<connections, activeConnectionId, localStorage, connectRequests, ids>>
  /\ UNCHANGED notStoreVars

\* A click on a tab (CollectionTabs.tsx lines 47-51): setActiveTab (store.ts
\* lines 134-136) and setActiveConnection.
TabClick(tab) ==
  /\ activeTabId' = tab.id
  /\ activeConnectionId' = tab.connectionId
  /\ UNCHANGED <<connections, tabs, localStorage, connectRequests, ids>>
  /\ UNCHANGED notStoreVars

\* The page is loaded again: the store is built anew, the requests of the
\* page that went away are answered to nobody, and the dashboard's effect
\* calls hydrate (types/index.ts lines 219-222).  localStorage outlives the
\* page.
Reload ==
  /\ connections' = hydrate(localStorage)
  /\ activeConnectionId' = Null
  /\ tabs' = << >>
  /\ activeTabId' = Null
  /\ connectRequests' = [n \in 1..MaxIds |-> 0]
  /\ UNCHANGED <<localStorage, ids>>
  /\ UNCHANGED notStoreVars

Databases == {"db1"}
Collections == {"users", "orders"}

NextStore ==
  \/ \E connection \in ConnectionInputs : addConnection(connection)
  \/ \E id \in ConnectionIds : handleConnect(id)
  \/ \E id \in ConnectionIds, outcome \in ConnectOutcomes : handleConnectDone(id, outcome)
  \/ \E n \in 1..MaxIds, outcome \in ConnectOutcomes :
       Id(n) \notin ConnectionIds /\ handleConnectDone(Id(n), outcome)
  \/ \E id \in ConnectionIds : removeConnection(id)
  \/ \E i \in DOMAIN connections :
       /\ connections[i]["status"] = Str("connected")
       /\ setActiveConnection(connections[i]["id"])
  \/ \E database \in Databases, collection \in Collections :
       openCollection(database, collection)
  \/ \E id \in TabIds : removeTab(id)
  \/ \E i \in DOMAIN tabs : TabClick(tabs[i])
  \/ Reload

SpecStore == Init /\ [][NextStore]_vars

\* ==== the browser: the document editor ========================================
notEditorVars == <<serverVars, storeVars, tableVars, sidebarVars>>

\* A text that is the JSON of value x, and a text that is no JSON.
JsonText(x) == [k |-> "json", v |-> x]
BadText == [k |-> "text", v |-> "{ name: "]

\* parseJsonSafely (utils.ts lines 104-111).
parseJsonSafely(json) ==
  IF json.k = "json" THEN [success |-> TRUE, data |-> JSONparse(json)]
                     ELSE [success |-> FALSE, data |-> NoValue]

\* prettyPrintJson: JSON.stringify(obj, null, 2).
prettyPrintJson(obj) == JsonText(obj)

\* const { _id, ...rest } = x: rest.
WithoutId(m) == [key \in DOMAIN m \ {"_id"} |-> m[key]]

\* { ...x } of a parsed JSON value: null and the scalars have no own
\* properties.
SpreadData(x) == IF x.k \in {"map", "arr"} THEN Spread(x) ELSE Empty

\* The documents of the table's page, as the documents route sent them: _id
\* is the ObjectId's text.
TableDocuments ==
  {Map("_id" :> Str(h) @@ "name" :> Str("a")) : h \in HexIds}

\* What the user can leave in the editor.
EditorValues == {Str(AnId), Str(OtherId), Str("b"), Null}
EditorTexts ==
  {JsonText(Map(m)) : m \in UNION {[S -> EditorValues] : S \in SUBSET {"_id", "name"}}}
    \cup {JsonText(Arr(<<Str("b")>>)), JsonText(Null), BadText}

\* handleEditClick (part_001 lines 186-188) and the editor's effect
\* (DocumentEditor.tsx lines 93-102).
handleEditClick(doc) ==
  /\ ~editorState.isOpen
  /\ editorState' = [isOpen |-> TRUE, document |-> doc, mode |-> "edit"]
  /\ jsonString' = prettyPrintJson(Map(WithoutId(doc.v)))
  /\ UNCHANGED <<isSaving, saveRequest>>
  /\ UNCHANGED notEditorVars

\* handleAddClick (part_001 lines 190-192) and the editor's effect.
handleAddClick ==
  /\ ~editorState.isOpen
  /\ editorState' = [isOpen |-> TRUE, document |-> Null, mode |-> "create"]
  /\ jsonString' = JsonText(Map(Empty))
  /\ UNCHANGED <<isSaving, saveRequest>>
  /\ UNCHANGED notEditorVars

\* The user changes the text (setJsonString).
Type(text) ==
  /\ editorState.isOpen /\ ~isSaving
  /\ jsonString' = text
  /\ UNCHANGED <<editorState, isSaving, saveRequest>>
  /\ UNCHANGED notEditorVars

\* docToSave (DocumentEditor.tsx lines 115-117).
docToSave(data) ==
  IF editorState.mode = "edit" /\ ~Falsy(editorState.document)
    THEN Map(SpreadData(data) @@ ("_id" :> editorState.document.v["_id"]))
    ELSE data

\* The body handleSaveDocument sends (part_001 lines 198-226).
saveBody(doc) ==
  IF editorState.mode = "edit"
    THEN [method |-> "PATCH",
          filter |-> Map("_id" :> Read(SpreadData(doc), "_id")),
          update |-> Map(WithoutId(SpreadData(doc)))]
    ELSE [method |-> "PUT", document |-> doc]

\* handleSave up to the await in handleSaveDocument (DocumentEditor.tsx
\* lines 104-119, part_001 lines 194-226).
handleSave ==
  /\ editorState.isOpen /\ ~isSaving
  /\ LET parsed == parseJsonSafely(jsonString) IN
       IF ~parsed.success
         THEN UNCHANGED <<isSaving, saveRequest>>
         ELSE /\ isSaving' = TRUE
              /\ saveRequest' = saveBody(docToSave(parsed.data))
  /\ UNCHANGED <<editorState, jsonString>>
  /\ UNCHANGED notEditorVars

\* The response arrives (part_001 lines 211-249, DocumentEditor.tsx lines
\* 119-125): with success the editor closes.
handleSaveDone(success) ==
  /\ isSaving
  /\ isSaving' = FALSE
  /\ editorState' = IF success THEN ClosedEditor ELSE editorState
  /\ jsonString' = IF success THEN JsonText(Map(Empty)) ELSE jsonString
  /\ UNCHANGED saveRequest
  /\ UNCHANGED notEditorVars

NextEditor ==
  \/ \E doc \in TableDocuments : handleEditClick(doc)
  \/ handleAddClick
  \/ \E text \in EditorTexts : Type(text)
  \/ handleSave
  \/ \E success \in BOOLEAN : handleSaveDone(success)

SpecEditor == Init /\ [][NextEditor]_vars

\* ==== the browser: the document table =========================================
notTableVars == <<serverVars, storeVars, editorVars, sidebarVars>>

\* The table over a collection of any size up to MaxTotal.
InitTableSpec ==
  /\ InitRegistry
  /\ InitDocs
  /\ filter = NoValue
  /\ convertedFilter = NoValue
  /\ InitStore
  /\ InitEditor
  /\ InitSidebar
  /\ \E n \in 0..MaxTotal : Mounted(n)

\* The sizes the select offers (part_001 lines 555-558) and the texts the
\* filter input holds: "{}" and a text that is not yet JSON, which
\* loadDocuments replaces by the filter {} (lines 84-95).
PageSizes == {10, 20, 50, 100}
FilterTexts == {"{}", "{ \"name\""}

\* Math.ceil(total / pageSize) (part_001 line 270).
totalPages == (tableTotal + pageSize - 1) \div pageSize

\* getPageNumbers (part_001 lines 273-310), the numbers among its entries.
getPageNumbers ==
  IF totalPages <= 7
    THEN 1..totalPages
    ELSE {1, totalPages}
           \cup ((IF page - 1 > 2 THEN page - 1 ELSE 2)
                   ..(IF page + 1 < totalPages - 1 THEN page + 1 ELSE totalPages - 1))

\* What the documents route answers a request while the collection holds n
\* documents: every request's filter is {}, so the documents are those at
\* the positions skip + 1 .. skip + limit of the n, and total is n.
Result(r, n) ==
  [documents |-> IF r.skip < n
                   THEN [first |-> r.skip + 1,
                         last |-> IF r.skip + r.limit < n THEN r.skip + r.limit ELSE n,
                         of |-> n]
                   ELSE NoDocuments,
   total |-> n]

\* loadDocuments up to its await (part_001 lines 78-110), as created by the
\* render with filter text q, page p and page size s.
loadDocuments(seq, q, p, size) ==
  /\ seq <= MaxIssued
  /\ loads' = loads \cup {LoadRequest(seq, q, p, size)}
  /\ latest' = Issued(LoadRequest(seq, q, p, size))

\* loadDocuments after its await (part_001 lines 112-122): the response of
\* request r arrives, with success or without.
loadDocumentsDone(r, success) ==
  /\ r \in loads
  /\ loads' = loads \ {r}
  /\ IF success
       THEN /\ tableDocuments' = Result(r, server).documents
            /\ tableTotal' = Result(r, server).total
       ELSE UNCHANGED <<tableDocuments, tableTotal>>
  /\ latest' =
       IF r.seq # latest.seq THEN latest
       ELSE IF success
         THEN [latest EXCEPT !.status = "ok",
                             !.documents = Result(r, server).documents,
                             !.total = Result(r, server).total]
         ELSE [latest EXCEPT !.status = "failed"]
  /\ UNCHANGED <<server, page, pageSize, filterQuery, issued, deleting>>
  /\ UNCHANGED notTableVars

\* setPage(p) with p another page, and the effect that loads it (part_001
\* lines 125-127).
setPage(p) ==
  /\ p # page
  /\ page' = p
  /\ loadDocuments(issued + 1, filterQuery, p, pageSize)
  /\ issued' = issued + 1
  /\ UNCHANGED <<server, tableDocuments, tableTotal, pageSize, filterQuery, deleting>>
  /\ UNCHANGED notTableVars

\* The Prev button (part_001 lines 565-567).
PrevClick ==
  /\ page # 1
  /\ setPage(IF page - 1 > 1 THEN page - 1 ELSE 1)

\* The Next button (part_001 lines 598-600).
NextClick ==
  /\ ~(page >= totalPages)
  /\ setPage(IF page + 1 < totalPages THEN page + 1 ELSE totalPages)

\* A page number's button (part_001 line 582).
PageNumberClick(pageNum) ==
  /\ pageNum \in getPageNumbers
  /\ setPage(pageNum)

\* part_001 lines 312-319.
handleCustomPageGo(pageNum) ==
  /\ pageNum >= 1 /\ pageNum <= totalPages
  /\ setPage(pageNum)

\* The page size select (part_001 lines 549-552) and the effect that loads.
PageSizeChange(size) ==
  /\ size # pageSize \/ page # 1
  /\ pageSize' = size
  /\ page' = 1
  /\ loadDocuments(issued + 1, filterQuery, 1, size)
  /\ issued' = issued + 1
  /\ UNCHANGED <<server, tableDocuments, tableTotal, filterQuery, deleting>>
  /\ UNCHANGED notTableVars

\* The filter input changes (part_001 line 381).  The effect of lines
\* 125-127 loads with the new text and the page of that render; the effect
\* of lines 130-135 then sets page 1 and lastFilter, and when the page was
\* another one the next render's effect loads again.
FilterChange(q) ==
  /\ q # filterQuery
  /\ filterQuery' = q
  /\ page' = 1
  /\ IF page = 1
       THEN /\ loadDocuments(issued + 1, q, 1, pageSize)
            /\ issued' = issued + 1
       ELSE /\ issued + 2 <= MaxIssued
            /\ loads' = loads \cup {LoadRequest(issued + 1, q, page, pageSize),
                                    LoadRequest(issued + 2, q, 1, pageSize)}
            /\ latest' = Issued(LoadRequest(issued + 2, q, 1, pageSize))
            /\ issued' = issued + 2
  /\ UNCHANGED <<server, tableDocuments, tableTotal, pageSize, deleting>>
  /\ UNCHANGED notTableVars

\* Enter in the filter input or the Apply button (part_001 lines 382-385).
Refresh ==
  /\ loadDocuments(issued + 1, filterQuery, page, pageSize)
  /\ issued' = issued + 1
  /\ UNCHANGED <<server, tableDocuments, tableTotal, page, pageSize, filterQuery, deleting>>
  /\ UNCHANGED notTableVars

\* handleDeleteConfirm up to its await (part_001 lines 148-160) for a
\* document of the page shown.  The handler keeps the loadDocuments of the
\* render it was created in.
handleDeleteConfirm ==
  /\ tableDocuments # NoDocuments
  /\ deleting = NoValue
  /\ deleting' = [k |-> "closure", filterQuery |-> filterQuery, page |-> page,
                  pageSize |-> pageSize]
  /\ UNCHANGED <<server, tableDocuments, tableTotal, page, pageSize, filterQuery, loads, issued,
                 latest>>
  /\ UNCHANGED notTableVars

\* handleDeleteConfirm after its await (part_001 lines 162-174): the route
\* deleted the document and the table loads again, or the request failed.
handleDeleteDone(success) ==
  /\ deleting # NoValue
  /\ deleting' = NoValue
  /\ IF success
       THEN /\ server' = IF server > 0 THEN server - 1 ELSE server
            /\ loadDocuments(issued + 1, deleting.filterQuery, deleting.page,
                             deleting.pageSize)
            /\ issued' = issued + 1
       ELSE UNCHANGED <<server, loads, latest, issued>>
  /\ UNCHANGED <<tableDocuments, tableTotal, page, pageSize, filterQuery>>
  /\ UNCHANGED notTableVars

NextTable ==
  \/ \E r \in loads, success \in BOOLEAN : loadDocumentsDone(r, success)
  \/ PrevClick
  \/ NextClick
  \/ \E pageNum \in 1..MaxTotal : PageNumberClick(pageNum)
  \/ \E pageNum \in 0..MaxTotal : handleCustomPageGo(pageNum)
  \/ \E size \in PageSizes : PageSizeChange(size)
  \/ \E q \in FilterTexts : FilterChange(q)
  \/ Refresh
  \/ handleDeleteConfirm
  \/ \E success \in BOOLEAN : handleDeleteDone(success)

SpecTable == InitTableSpec /\ [][NextTable]_vars

\* ==== the browser: the sidebar ================================================
MaxCalls == 1       \* loadCollections calls in flight for one database

notSidebarVars == <<serverVars, storeVars, editorVars, tableVars>>

\* The store once a connection was added, its connect request succeeded and
\* made it the active connection.
ConnectedStore ==
  LET input == CHOOSE c \in ConnectionInputs : TRUE
      connected == CHOOSE o \in ConnectOutcomes : o.success
      conn == connected.updates
                @@ ("id" :> Id(1)
                      @@ "host" :> extractHostFromUri(input["uri"])
                      @@ "status" :> Str("disconnected")
                      @@ "createdAt" :> Now)
                @@ input
  IN /\ connections = <<conn>>
     /\ activeConnectionId = Id(1)
     /\ tabs = << >>
     /\ activeTabId = Null
     /\ localStorage = persist(<<conn>>)
     /\ connectRequests = [n \in 1..MaxIds |-> 0]
     /\ ids = 1

\* The nodes loadDatabases sets from a response that lists the databases
\* (Sidebar.tsx lines 116-124).
DatabaseNames == {"shop", "logs"}
dbNodes ==
  [name \in DatabaseNames |->
     [name |-> name, collections |-> << >>, isExpanded |-> FALSE, isLoading |-> FALSE]]

\* The sidebar of a connected, active connection whose databases are listed;
\* no tab is open, so the effect of lines 144-167 returns at once.
InitSidebarSpec ==
  /\ InitRegistry
  /\ InitDocs
  /\ filter = NoValue
  /\ convertedFilter = NoValue
  /\ ConnectedStore
  /\ InitEditor
  /\ InitTable
  /\ databases = dbNodes
  /\ collectionCalls = {}

\* const activeConnection = connections.find(...) (Sidebar.tsx line 99).
activeConnection ==
  {i \in DOMAIN connections : connections[i]["id"] = activeConnectionId}

CallsFor(databaseName) == {c \in collectionCalls : c.database = databaseName}

\* loadCollections up to its first await (Sidebar.tsx lines 169-178), on
\* the nodes prev: the nodes it sets and the call it leaves waiting.
loadCollections(prev, databaseName) ==
  IF activeConnection = {}
    THEN /\ databases' = prev
         /\ UNCHANGED collectionCalls
    ELSE /\ Cardinality(CallsFor(databaseName)) < MaxCalls
         /\ databases' = [prev EXCEPT ![databaseName].isLoading = TRUE]
         /\ collectionCalls' = collectionCalls \cup
              {[database |-> databaseName,
                n |-> Cardinality(CallsFor(databaseName)) + 1,
                pc |-> "collections", names |-> << >>]}

\* toggleDatabase (Sidebar.tsx lines 237-248).
toggleDatabase(databaseName) ==
  /\ databaseName \in DOMAIN databases
  /\ LET db == databases[databaseName]
         toggled == [databases EXCEPT ![databaseName].isExpanded = ~db.isExpanded]
     IN IF ~db.isExpanded /\ Len(db.collections) = 0
          THEN loadCollections(toggled, databaseName)
          ELSE /\ databases' = toggled
               /\ UNCHANGED collectionCalls
  /\ UNCHANGED notSidebarVars

\* What the collections request can bring: a response with success and the
\* collection names, a response with success false, or a thrown error.
CollectionLists == {<< >>, <<"users">>, <<"users", "orders">>}
CollectionsOutcomes ==
  {[kind |-> "success", names |-> names] : names \in CollectionLists}
    \cup {[kind |-> "failure", names |-> << >>], [kind |-> "throw", names |-> << >>]}

\* The collections request of call c ends (Sidebar.tsx lines 187-191 and
\* 227-234).  With success the stats requests are sent and awaited; with
\* success false the call returns; a thrown error is caught.
collectionsDone(c, outcome) ==
  /\ c \in collectionCalls /\ c.pc = "collections"
  /\ CASE outcome.kind = "success" ->
            /\ collectionCalls' = (collectionCalls \ {c})
                                    \cup {[c EXCEPT !.pc = "stats", !.names = outcome.names]}
            /\ UNCHANGED databases
       [] outcome.kind = "failure" ->
            /\ collectionCalls' = collectionCalls \ {c}
            /\ UNCHANGED databases
       [] OTHER ->
            /\ collectionCalls' = collectionCalls \ {c}
            /\ databases' = IF c.database \in DOMAIN databases
                              THEN [databases EXCEPT ![c.database].isLoading = FALSE]
                              ELSE databases
  /\ UNCHANGED notSidebarVars

\* Every stats request of call c has ended (Sidebar.tsx lines 191-226):
\* each collection gets the count and size of its stats, 0 when its request
\* failed, and the node stops loading.
StatCounts == {0, 42}
statsDone(c, counts) ==
  /\ c \in collectionCalls /\ c.pc = "stats"
  /\ collectionCalls' = collectionCalls \ {c}
  /\ databases' =
       IF c.database \in DOMAIN databases
         THEN [databases EXCEPT
                 ![c.database].collections =
                    [i \in DOMAIN c.names |->
                       [name |-> c.names[i], count |-> counts[i], size |-> counts[i]]],
                 ![c.database].isLoading = FALSE]
         ELSE databases
  /\ UNCHANGED notSidebarVars

NextSidebar ==
  \/ \E databaseName \in DatabaseNames : toggleDatabase(databaseName)
  \/ \E c \in collectionCalls, outcome \in CollectionsOutcomes : collectionsDone(c, outcome)
  \/ \E c \in collectionCalls :
       \E counts \in [DOMAIN c.names -> StatCounts] : statsDone(c, counts)

SpecSidebar == InitSidebarSpec /\ [][NextSidebar]_vars

\* ==== properties ============================================================
ClientIds == 1..Len(clients)
Live(h) == clients[h].connected /\ ~clients[h].closed
LiveFor(c) == {h \in ClientIds : clients[h].uri = c /\ Live(h)}
ConnectedFor(c) == {h \in ClientIds : clients[h].uri = c /\ clients[h].connected}
\* The probe of the cached client failed in this call: the call went on to
\* construct a client of its own.
ProbeFailed(s) == s.cached # NoClient /\ s.client # s.cached /\ s.pc # "ping"
Acquired(p) ==
  /\ procs[p].pc = "done"
  /\ procs[p].op = "getMongoClient"
  /\ procs[p].kind = "return"

\* C1: in every reachable state, for every connection string there is at
\* most one client made by getMongoClient that is connected and not closed.
C1_AtMostOneLive == \A c \in URIs : Cardinality(LiveFor(c)) <= 1

\* C2: invocations that are creating a client for the same connection string
\* at the same time, each having found no cached client, share one client:
\* only one MongoClient is constructed and connected for them.
C2_SingleFlight ==
  \A p, q \in Procs :
    ( /\ procs[p].pc = "connect" /\ procs[q].pc = "connect"
      /\ procs[p].uri = procs[q].uri
      /\ procs[p].cached = NoClient /\ procs[q].cached = NoClient )
    => procs[p].client = procs[q].client

\* C3: once a getMongoClient(c) has completed successfully, and while no probe
\* on c has failed and closeMongoClient(c) has not been called, the number of
\* connections established for c is 1.
C3_CounterStaysOne ==
  \A c \in GoodURIs :
    (ConnectedFor(c) # {} /\ ~disturbed[c]) => Cardinality(ConnectedFor(c)) = 1

\* C4: when the probe of the cached client fails inside getMongoClient, that
\* step deletes the entry and constructs a new client without ending the
\* call; when the new client's connect() resolves it is stored under the key
\* and returned; the call ends in an error only when connect() rejects, and
\* the error is then the connect error.
C4_ProbeFailureReplaces ==
  [][\A p \in Procs :
       LET s == procs[p]
           t == procs'[p] IN
       /\ (s.pc = "ping" /\ t.pc = "done") => (t.kind = "return" /\ t.client = s.cached)
       /\ (s.pc = "ping" /\ t.pc = "connect") =>
            /\ clientCache'[s.uri] = NoClient
            /\ t.cached = s.cached
            /\ t.client = Len(clients) + 1
            /\ Len(clients') = Len(clients) + 1
            /\ clients'[t.client] = [uri |-> s.uri, connected |-> FALSE, closed |-> FALSE]
       /\ (s.pc = "connect" /\ ProbeFailed(s) /\ t.pc = "done") =>
            \/ /\ t.kind = "return"
               /\ t.client = s.client /\ t.client # s.cached
               /\ clients'[t.client].connected
               /\ clientCache'[s.uri] = t.client
            \/ /\ t.kind = "throw"
               /\ t.error = "connect failed"
               /\ UNCHANGED clientCache
  ]_vars

\* C4 witness: a getMongoClient call whose probe failed has returned the
\* replacement, which is the cached client.
C4_Witness ==
  \E p \in Procs :
    /\ Acquired(p)
    /\ ProbeFailed(procs[p])
    /\ clientCache[procs[p].uri] = procs[p].client

\* C5: after getMongoClient has replaced a client whose probe failed, the
\* replaced client has been closed.
C5_ReplacedIsClosed ==
  \A p \in Procs :
    (Acquired(p) /\ ProbeFailed(procs[p])) => clients[procs[p].cached].closed

\* C6: every cached client completed connect() and belongs to its key; a
\* getMongoClient call returns only a connected client, and a call whose
\* client did not connect (or could not be constructed) ends in an error and
\* leaves no entry for that client.
C6_FailureNotCached ==
  /\ \A c \in URIs :
       clientCache[c] # NoClient =>
         /\ clientCache[c] \in ClientIds
         /\ clients[clientCache[c]].connected
         /\ clients[clientCache[c]].uri = c
  /\ \A p \in Procs :
       (procs[p].pc = "done" /\ procs[p].op = "getMongoClient") =>
         IF procs[p].client # NoClient /\ clients[procs[p].client].connected
           THEN procs[p].kind = "return"
           ELSE /\ procs[p].kind = "throw"
                /\ procs[p].error \in {"connect failed", "invalid uri"}
                /\ \A c \in URIs :
                     clientCache[c] = NoClient \/ clientCache[c] # procs[p].client

\* C6 witness: a getMongoClient call ended in the connect error and its key
\* has no entry.
C6_Witness ==
  \E p \in Procs :
    /\ procs[p].pc = "done" /\ procs[p].op = "getMongoClient"
    /\ procs[p].kind = "throw" /\ procs[p].error = "connect failed"
    /\ procs[p].client # NoClient
    /\ clientCache[procs[p].uri] = NoClient

C8_NoRelease ==
  [][LET s == procs[Gateway]
         t == procs'[Gateway] IN
       ( /\ s.op \in GatewayOps
         /\ t # s
         /\ \/ s.pc = "ping" /\ t.pc # "connect"
            \/ s.pc = "command" )
       => /\ UNCHANGED clientCache
          /\ \A h \in ClientIds : clients'[h] = clients[h]
  ]_vars

\* C8 witness: a store function found a cached client, its probe succeeded,
\* its store command failed, and that client is still the cached client of
\* its key, connected and not closed.
C8_Witness ==
  /\ procs[Gateway].pc = "done"
  /\ procs[Gateway].op \in StoreOps
  /\ procs[Gateway].kind = "throw"
  /\ procs[Gateway].error = "command failed"
  /\ procs[Gateway].cached # NoClient
  /\ procs[Gateway].client = procs[Gateway].cached
  /\ clientCache[procs[Gateway].uri] = procs[Gateway].client
  /\ Live(procs[Gateway].client)

\* C9: testConnection never throws; it returns success = true only from its
\* own ping on an acquired client, with no error and without changing the
\* cache, and in every other case returns success = false with the message of
\* the error that stopped it.
C9_TestConnection ==
  [][LET s == procs[Gateway]
         t == procs'[Gateway] IN
       (s.op = "testConnection" /\ s.pc # "done" /\ t.pc = "done") =>
         /\ t.kind = "return"
         /\ IF t.success
              THEN /\ s.pc = "command"
                   /\ t.error = NoError
                   /\ s.client \in ClientIds
                   /\ UNCHANGED <<clientCache, clients>>
              ELSE /\ t.error # NoError
                   /\ t.error = (CASE s.pc = "command" -> "command failed"
                                   [] s.pc = "connect" -> "connect failed"
                                   [] OTHER -> "invalid uri")
  ]_vars

\* C9 witness: testConnection has returned success = true and the client it
\* pinged is the cached client of its key.
C9_Witness ==
  /\ procs[Gateway].pc = "done"
  /\ procs[Gateway].op = "testConnection"
  /\ procs[Gateway].success
  /\ clientCache[procs[Gateway].uri] = procs[Gateway].client

\* C10: every route handler ends with a response {success, error?}: with
\* success = true it carries no error, with success = false it carries the
\* error's message and status 400 or 500; no exception leaves a handler.
C10_Normalized ==
  \A p \in Procs :
    (procs[p].pc = "done" /\ procs[p].op \in Routes) =>
      /\ procs[p].kind = "response"
      /\ IF procs[p].success
           THEN procs[p].error = NoError /\ procs[p].status = 200
           ELSE procs[p].error # NoError /\ procs[p].status \in {400, 500}

\* C10 witness: a handler has answered 500 with the message of a store
\* command that failed.
C10_Witness ==
  \E p \in Procs :
    /\ procs[p].pc = "done" /\ procs[p].op \in Routes
    /\ procs[p].kind = "response"
    /\ ~procs[p].success
    /\ procs[p].error = "command failed"
    /\ procs[p].status = 500

\* ---- C11, C12: validation of the request body ---------------------------
\* The fields the five data routes need.
C11_Needs(r) ==
  CASE r = "documents.POST"   -> {"uri", "database", "collection"}
    [] r = "documents.PUT"    -> {"uri", "database", "collection", "document"}
    [] r = "documents.PATCH"  -> {"uri", "database", "collection", "filter", "update"}
    [] r = "documents.DELETE" -> {"uri", "database", "collection", "filter"}
    [] r = "aggregate.POST"   -> {"uri", "database", "collection", "pipeline"}
    [] OTHER                  -> {}

\* C11: a list, insert, update, delete or aggregation request whose body
\* lacks a field the route needs, or whose pipeline is not an array, is
\* answered 400 by the step that validates it; that step constructs no
\* client, starts no probe, connect or store call, and leaves the cache and
\* every client as they are.
C11_RequiredFields ==
  [][(procs[Gateway].pc = "parse" /\ C11_Needs(procs[Gateway].op) # {}) =>
       \A present \in Bodies(procs[Gateway].op), u \in URIs, isArray \in BOOLEAN :
         LET r == procs[Gateway].op
             t == procs'[Gateway] IN
         ( /\ \/ ~(C11_Needs(r) \subseteq present)
              \/ r = "aggregate.POST" /\ ~isArray
           /\ ParseOk(Gateway, present, u, isArray) )
         => /\ t.pc = "done" /\ t.kind = "response"
            /\ ~t.success /\ t.status = 400
            /\ t.error \in {"required", "not an array"}
            /\ UNCHANGED <<clientCache, clients>>
  ]_vars

\* C11 witness: an update request was rejected with 400 for a missing field
\* while a client is cached and live.
C11_Witness ==
  /\ procs[Gateway].pc = "done"
  /\ procs[Gateway].op = "documents.PATCH"
  /\ procs[Gateway].status = 400
  /\ procs[Gateway].error = "required"
  /\ \E c \in GoodURIs : clientCache[c] # NoClient /\ Live(clientCache[c])

\* C12: on every route, a request whose connection string does not start
\* with mongodb:// or mongodb+srv:// is answered 400 by the step that
\* validates the body, and no client is constructed.
C12_MalformedUri400 ==
  [][procs[Gateway].pc = "parse" =>
       \A present \in Bodies(procs[Gateway].op), isArray \in BOOLEAN :
         ParseOk(Gateway, present, BadURI, isArray)
         => /\ procs'[Gateway].pc = "done"
            /\ procs'[Gateway].status = 400
            /\ UNCHANGED <<clientCache, clients>>
  ]_vars

\* ---- C13..C20: the documents routes ---------------------------------------
\* The limit findDocuments applies to a list request with options o.
LimitOf(o) == IF "limit" \in DOMAIN o THEN o.limit ELSE DefaultLimit
Listed == reply.op = "documents.POST" /\ reply.success

\* C13: a list request whose limit L (given, or the default) is positive is
\* answered with at most L documents, whatever its filter and skip.
C13_AtMostLimit ==
  Listed =>
    (LimitOf(reply.sent.options) > 0 =>
       Len(reply.data.documents) <= LimitOf(reply.sent.options))

\* C13 witness: a list request with limit 1 was answered with one document
\* while two documents match its filter.
C13_Witness ==
  /\ Listed
  /\ LimitOf(reply.sent.options) = 1
  /\ Len(reply.data.documents) = 1
  /\ reply.data.total = 2

\* C14: the total of a list request is the number of documents of the
\* collection that match the filter given to findDocuments, and every choice
\* of limit and skip, the defaults included, gives that same total.
C14_TotalIsMatchCount ==
  [][( /\ reply'.op = "documents.POST"
       /\ DocumentsPOST(reply'.req.filter, reply'.req.options) )
     => LET q == reply'.sent.filter IN
          /\ reply'.data.total = Cardinality({i \in DOMAIN coll : Matches(coll[i], q)})
          /\ \A o \in FindOptions : findDocuments(coll, q, o).total = reply'.data.total
  ]_vars

\* C14 witness: a list request with a skip was answered with no document and
\* total 1, the filter matching one of the two documents of the collection.
C14_Witness ==
  /\ Listed
  /\ "skip" \in DOMAIN reply.sent.options
  /\ reply.req.filter = Map(Field("name", Str("a")))
  /\ Len(coll) = 2
  /\ reply.data.total = 1
  /\ Len(reply.data.documents) = 0

\* C15: after an insert request has succeeded, a list request that follows
\* it with filter {_id: insertedId}, insertedId as the insert response gave
\* it, is answered with total 1 and exactly one document: the inserted
\* document with _id = insertedId.
C15_RoundTrip ==
  [][( /\ reply.op = "documents.PUT" /\ reply.success
       /\ reply'.op = "documents.POST"
       /\ reply'.req = [filter |-> Map(Field("_id", reply.data.insertedId)),
                        options |-> Empty]
       /\ DocumentsPOST(reply'.req.filter, reply'.req.options) )
     => LET doc == reply.req.document.v IN
          /\ reply'.data.total = 1
          /\ reply'.data.documents =
               << [key \in DOMAIN doc \cup {"_id"} |->
                     IF key = "_id" THEN reply.data.insertedId ELSE doc[key]] >>
  ]_vars

\* The collection c with the document at position i removed.
Without(c, i) == SubSeq(c, 1, i - 1) \o SubSeq(c, i + 1, Len(c))

\* C16: an update request changes at most one document and reports
\* modifiedCount 0 or 1; a delete request removes at most one document and
\* reports deletedCount 0 or 1; whatever the filter.
C16_AtMostOne ==
  [][ /\ ( /\ reply'.op = "documents.PATCH"
           /\ DocumentsPATCH(reply'.req.filter, reply'.req.update) )
         => /\ Len(coll') = Len(coll)
            /\ Cardinality({i \in DOMAIN coll : coll'[i] # coll[i]}) <= 1
            /\ reply'.success =>
                 /\ reply'.data.modifiedCount \in {0, 1}
                 /\ reply'.data.modifiedCount =
                      Cardinality({i \in DOMAIN coll : coll'[i] # coll[i]})
      /\ ( /\ reply'.op = "documents.DELETE"
           /\ DocumentsDELETE(reply'.req.filter) )
         => /\ \/ coll' = coll
               \/ \E i \in DOMAIN coll : coll' = Without(coll, i)
            /\ reply'.success =>
                 /\ reply'.data.deletedCount \in {0, 1}
                 /\ Len(coll') = Len(coll) - reply'.data.deletedCount
  ]_vars

\* C16 witness: a delete request with the empty filter deleted one document
\* and left another.
C16_Witness ==
  /\ reply.op = "documents.DELETE" /\ reply.success
  /\ reply.req.filter = Map(Empty)
  /\ reply.data.deletedCount = 1
  /\ Len(coll) >= 1

\* C17: an update request changes no document but one the filter matches;
\* in that document every field the payload names has the payload's value,
\* every other field and _id keep their values, and no field is removed.
C17_OnlyNamedFields ==
  [][( /\ reply'.op = "documents.PATCH"
       /\ DocumentsPATCH(reply'.req.filter, reply'.req.update) )
     => /\ Len(coll') = Len(coll)
        /\ \A i \in DOMAIN coll :
             coll'[i] # coll[i] =>
               LET u == reply'.sent.update IN
                 /\ Matches(coll[i], reply'.sent.filter)
                 /\ \A j \in DOMAIN coll \ {i} : coll'[j] = coll[j]
                 /\ DOMAIN coll'[i] = DOMAIN coll[i] \cup DOMAIN u
                 /\ \A key \in DOMAIN u : coll'[i][key] = u[key]
                 /\ \A key \in DOMAIN coll[i] \ DOMAIN u : coll'[i][key] = coll[i][key]
                 /\ coll'[i]["_id"] = coll[i]["_id"]
  ]_vars

\* C17 witness: an update request changed the name of one document, which
\* still has its tag, and the other document has the name it had.
C17_Witness ==
  /\ reply.op = "documents.PATCH" /\ reply.success
  /\ reply.data.modifiedCount = 1
  /\ reply.req.update = Map(Field("name", Str("b")))
  /\ \E i, j \in DOMAIN coll :
       /\ coll[i]["name"] = Str("b") /\ coll[i]["tag"] = Str("x")
       /\ coll[j]["name"] = Str("a")

\* A request with a filter whose top-level _id is a string.
HasStringId(x) == x.k = "map" /\ "_id" \in DOMAIN x.v /\ x.v["_id"].k = "str"
FilterRoutes == {"documents.POST", "documents.PATCH", "documents.DELETE"}

\* C18: a list, update or delete request whose required fields are present
\* and whose filter has a string as top-level _id is dispatched; the filter
\* the service function receives has the ObjectId of that string as _id when
\* the string is 24 hex characters, and the string itself otherwise.
C18_TopLevelId ==
  ( /\ reply.op \in FilterRoutes
    /\ reply.status # 400
    /\ HasStringId(reply.req.filter) )
  => /\ reply.sent # NoValue
     /\ reply.sent.filter.v["_id"] =
          IF ObjectIdAccepts(reply.req.filter.v["_id"].v)
            THEN Oid(reply.req.filter.v["_id"].v)
            ELSE reply.req.filter.v["_id"]

\* C18 witness: a list request with _id "k1", which is no ObjectId text, was
\* dispatched with the string and found the document whose _id is "k1".
C18_Witness ==
  /\ Listed
  /\ reply.req.filter = Map(Field("_id", Str("k1")))
  /\ reply.sent.filter = Map(Field("_id", Str("k1")))
  /\ reply.data.total = 1

\* Every ObjectId text that x holds as an identifier is an ObjectId at the
\* same place of y.  A string is an identifier when it is the value of an
\* _id key, or stands below one through query operators and the elements of
\* their arrays.  An array element i of x is looked up in y at index i, or at
\* property IndexKey(i) when y is an object.
Operators == {"$or", "$in"}
RECURSIVE Coerced(_, _, _)
Coerced(x, y, asId) ==
  CASE x.k = "str" -> (asId /\ ObjectIdAccepts(x.v)) => y = Oid(x.v)
    [] x.k = "map" ->
         /\ y.k = "map"
         /\ DOMAIN x.v \subseteq DOMAIN y.v
         /\ \A key \in DOMAIN x.v :
              Coerced(x.v[key], y.v[key], key = "_id" \/ (asId /\ key \in Operators))
    [] x.k = "arr" ->
         \/ /\ y.k = "arr"
            /\ DOMAIN x.v \subseteq DOMAIN y.v
            /\ \A i \in DOMAIN x.v : Coerced(x.v[i], y.v[i], asId)
         \/ /\ y.k = "map"
            /\ \A i \in DOMAIN x.v :
                 /\ IndexKey(i) \in DOMAIN y.v
                 /\ Coerced(x.v[i], y.v[IndexKey(i)], asId)
    [] OTHER -> TRUE

\* C19: in the result of convertIdFilter, every ObjectId text the filter
\* holds as an identifier, at any depth of nested objects and of arrays such
\* as the operand of $or or $in, is an ObjectId.
C19_NestedIds ==
  convertedFilter # Pending => Coerced(filter, convertedFilter, FALSE)

\* C20: the update payload an update request gives the service function has
\* the ObjectId as _id when the request's payload has an ObjectId text as
\* _id.
C20_UpdateBodyId ==
  ( /\ reply.op = "documents.PATCH"
    /\ reply.status # 400
    /\ HasStringId(reply.req.update)
    /\ ObjectIdAccepts(reply.req.update.v["_id"].v) )
  => reply.sent.update["_id"] = Oid(reply.req.update.v["_id"].v)

\* y is x with nothing changed but ObjectId texts under _id keys turned into
\* ObjectIds: an object keeps its keys, an array is an array of the same
\* length with its elements in their order, anything else is returned as it
\* is.
RECURSIVE Preserved(_, _)
Preserved(x, y) ==
  CASE x.k = "map" ->
         /\ y.k = "map"
         /\ DOMAIN y.v = DOMAIN x.v
         /\ \A key \in DOMAIN x.v :
              IF key = "_id" /\ x.v[key].k = "str" /\ ObjectIdAccepts(x.v[key].v)
                THEN y.v[key] = Oid(x.v[key].v)
                ELSE Preserved(x.v[key], y.v[key])
    [] x.k = "arr" ->
         /\ y.k = "arr"
         /\ Len(y.v) = Len(x.v)
         /\ \A i \in DOMAIN x.v : Preserved(x.v[i], y.v[i])
    [] OTHER -> y = x

\* C23: the result of convertIdFilter differs from its argument only in that
\* ObjectId texts under _id keys are ObjectIds: objects keep their keys,
\* arrays stay arrays with the same elements in the same order, scalars and
\* ObjectIds are returned unchanged.
C23_StructurePreserved ==
  convertedFilter # Pending => Preserved(filter, convertedFilter)

\* C24: the step of closeMongoClient that follows its awaited close() removes
\* from the cache no client other than the one it closed: the entry under its
\* key is then that client or is absent.
C24_ReleaseRemovesOwn ==
  [][\A p \in Procs :
       (procs[p].pc = "closing" /\ procs'[p] # procs[p]) =>
         clientCache[procs[p].uri] \in {NoClient, procs[p].client}
  ]_vars

\* Two connection lists are the same when they have the same length and
\* every property of every connection reads the same in both.
SameConnections(a, b) ==
  /\ Len(a) = Len(b)
  /\ \A i \in DOMAIN a :
       \A key \in DOMAIN a[i] \cup DOMAIN b[i] : Read(a[i], key) = Read(b[i], key)

C26_NoDuplicateTabs ==
  [][ /\ \A i, j \in DOMAIN tabs' :
           ( /\ tabs'[i].connectionId = tabs'[j].connectionId
             /\ tabs'[i].database = tabs'[j].database
             /\ tabs'[i].collection = tabs'[j].collection ) => i = j
      /\ \A database \in Databases, collection \in Collections :
           \A i \in DOMAIN tabs :
             ( /\ tabs[i].connectionId = activeConnectionId
               /\ tabs[i].database = database
               /\ tabs[i].collection = collection
               /\ openCollection(database, collection) )
             => (tabs' = tabs /\ activeTabId' = tabs[i].id)
    ]_vars

\* C26 witness: two tabs are open and the first, not the last one opened, is
\* active.
C26_Witness ==
  /\ Len(tabs) = 2
  /\ activeTabId = tabs[1].id
  /\ tabs[1].connectionId = activeConnectionId

\* C29: a connection whose status is 'connecting' has a connect request in
\* flight.
C29_ConnectingHasRequest ==
  \A i \in DOMAIN connections :
    connections[i]["status"] = Str("connecting")
      => connectRequests[connections[i]["id"].v] > 0

\* C22: a save in edit mode sends an update whose filter is the _id of the
\* document that was opened, and whose update body has no _id, whatever JSON
\* the editor holds.
C22_IdPreserved ==
  [][ ( /\ editorState.mode = "edit"
        /\ parseJsonSafely(jsonString).success
        /\ handleSave )
      => /\ saveRequest'.method = "PATCH"
         /\ saveRequest'.filter = Map("_id" :> editorState.document.v["_id"])
         /\ "_id" \notin DOMAIN saveRequest'.update.v
    ]_vars

\* C27: once every loadDocuments response has arrived, the documents and the
\* total shown are those of the response to the request issued last.
C27_LatestShown ==
  (loads = {} /\ latest.status = "ok")
    => (tableDocuments = latest.documents /\ tableTotal = latest.total)

\* C30: the page is at least 1 and at most max(1, totalPages).
C30_PageInRange ==
  /\ 1 <= page
  /\ page <= (IF totalPages > 1 THEN totalPages ELSE 1)

\* C28: a database none of whose loadCollections calls is still running is
\* not loading: every call that has returned left isLoading false.
C28_ReturnedNotLoading ==
  \A databaseName \in DOMAIN databases :
    CallsFor(databaseName) = {} => ~databases[databaseName].isLoading

====
